---- MODULE Spec2Model ----
(***************************************************************************)
(* Model of starkli's network profile store (src/profile.rs): the chain-id *)
(* codec, the provider codec, the typed (de)serialization of the profiles  *)
(* document, and Profiles::load / Profiles::save over the backing file.    *)
(***************************************************************************)
EXTENDS Naturals, Integers, Sequences, FiniteSets, TLC

VARIABLES
    file,     \* the backing file profiles.toml: [exists, data], data a sequence of lines
    pc,       \* per process: position in the load / mutate / save sequence
    mem,      \* per process: the in-memory Profiles value (IndexMap as a sequence of entries)
    buf,      \* per process: the text produced by toml::to_string_pretty, to be written
    res,      \* per process: the Result of the last load or save call
    snap,     \* per process: the store the last save call was given
    edits,    \* per process: number of caller mutations applied
    log,      \* the file system calls of the saves, in order: <<process, call>>
    input,    \* codec specifications: the value handed to the codec
    output,   \* codec specifications: the codec's result
    step      \* codec specifications: which codec call has been made

vars == <<file, pc, mem, buf, res, snap, edits, log, input, output, step>>

(***************************************************************************)
(* Bounds of the model                                                     *)
(***************************************************************************)
MaxStrLen == 3          \* codec specification: every chain-id text up to this length
MaxNetworks == 3        \* networks per profile in the user's documents (plain networks)
MaxVariedNetworks == 2  \* networks per profile in the user's documents (every variant)
MaxEdits == 2           \* caller mutations between load and save, one process
MaxSharedEdits == 1     \* caller mutations between load and save, two processes

Procs == {1, 2}

None == <<>>
Some(x) == <<x>>

Ok(v) == [ok |-> TRUE, val |-> v, err |-> <<>>]
Err(e) == [ok |-> FALSE, val |-> <<>>, err |-> e]

(***************************************************************************)
(* Chain-id codec.  A FieldElement is modelled by its 32 big-endian bytes. *)
(***************************************************************************)
FeltBytes == 32
MaxShortStringLen == 31

\* Bytes of the texts the codec specification feeds the decoder: NUL, two
\* printable ASCII letters and one non-ASCII byte.
CodecBytes == {0, 65, 66, 200}

Zeros(n) == [i \in 1..n |-> 0]

is_ascii(b) == \A i \in 1..Len(b) : b[i] < 128

\* starknet::core::utils::cairo_short_string_to_felt on the bytes of the text
cairo_short_string_to_felt(b) ==
    IF ~is_ascii(b) THEN Err(<<"NonAsciiCharacter">>)
    ELSE IF Len(b) > MaxShortStringLen THEN Err(<<"StringTooLong">>)
    ELSE Ok(Zeros(FeltBytes - Len(b)) \o b)

\* the byte loop of parse_cairo_short_string: `acc` is the String buffer
RECURSIVE ShortStringLoop(_, _, _)
ShortStringLoop(bytes, i, acc) ==
    IF i > Len(bytes) THEN Ok(acc)
    ELSE IF bytes[i] = 0
         THEN IF acc # <<>> THEN Err(<<"UnexpectedNullTerminator">>)
              ELSE ShortStringLoop(bytes, i + 1, acc)
         ELSE ShortStringLoop(bytes, i + 1, Append(acc, bytes[i]))

\* starknet::core::utils::parse_cairo_short_string
parse_cairo_short_string(felt) ==
    IF felt = Zeros(FeltBytes) THEN Ok(<<>>)
    ELSE IF felt[1] > 0 THEN Err(<<"ValueOutOfRange">>)
    ELSE ShortStringLoop(felt, 1, <<>>)

\* ChainIdVisitor::visit_str / deserialize_chain_id
ChainIdVisitor_visit_str(v) ==
    LET Wrap(r) == IF r.ok THEN r ELSE Err(<<"invalid value", "valid Cairo short string">>)
    IN Wrap(cairo_short_string_to_felt(v))

deserialize_chain_id(v) == ChainIdVisitor_visit_str(v)

\* serialize_chain_id
serialize_chain_id(value) ==
    LET Wrap(r) == IF r.ok THEN r ELSE Err(<<"invalid Cairo short string">>)
    IN Wrap(parse_cairo_short_string(value))

(***************************************************************************)
(* Strings.  A TOML string is a TLA+ string; StrBytes gives the bytes      *)
(* (str::as_bytes) of the strings that occur as chain ids.  "<NUL>" stands *)
(* for the character U+0000 (written "\u0000" in a TOML basic string) and  *)
(* "<E9>" for the non-ASCII character U+00E9.                              *)
(***************************************************************************)
SN_MAIN == <<83, 78, 95, 77, 65, 73, 78>>
SN_GOERLI == <<83, 78, 95, 71, 79, 69, 82, 76, 73>>

ChainIdTexts ==
    {"", "SN_MAIN", "SN_GOERLI", "<NUL>SN_MAIN", "SN_MAIN<NUL>", "SN_<E9>", "A*31", "A*32"}

StrBytes(s) ==
    CASE s = "" -> <<>>
      [] s = "SN_MAIN" -> SN_MAIN
      [] s = "SN_GOERLI" -> SN_GOERLI
      [] s = "<NUL>SN_MAIN" -> <<0>> \o SN_MAIN
      [] s = "SN_MAIN<NUL>" -> SN_MAIN \o <<0>>
      [] s = "SN_<E9>" -> <<83, 78, 95, 195, 169>>
      [] s = "A*31" -> [i \in 1..MaxShortStringLen |-> 65]
      [] s = "A*32" -> [i \in 1..FeltBytes |-> 65]

\* the String whose bytes are b
BytesStr(b) == CHOOSE s \in ChainIdTexts : StrBytes(s) = b

(***************************************************************************)
(* url::Url.  A Url value is modelled by its serialization (Url::as_ref),  *)
(* which Url::parse normalises: an empty path of an http(s) URL becomes    *)
(* "/", the scheme and host are lower-cased.  A string with no scheme is a *)
(* relative URL, which Url::parse rejects.                                 *)
(***************************************************************************)
UrlTexts ==
    {"https://a.io/rpc", "https://a.io", "https://a.io/", "HTTPS://A.io/rpc", "a.io/rpc", ""}

Url_parse(s) ==
    CASE s = "https://a.io/rpc" -> Ok("https://a.io/rpc")
      [] s = "HTTPS://A.io/rpc" -> Ok("https://a.io/rpc")
      [] s = "https://a.io" -> Ok("https://a.io/")
      [] s = "https://a.io/" -> Ok("https://a.io/")
      [] OTHER -> Err(<<"relative URL without a base">>)

\* UrlVisitor::visit_str
UrlVisitor_visit_str(v) ==
    LET Wrap(r) == IF r.ok THEN r ELSE Err(<<"invalid value", "valid URL">>)
    IN Wrap(Url_parse(v))

(***************************************************************************)
(* The TOML document.  The text is a sequence of lines: a table header     *)
(* [a.b.c] (val.t = "table", path absolute) or a key/value line 'k = v'    *)
(* (path = <<k>>, relative to the last header).                            *)
(***************************************************************************)
TableV == [t |-> "table", s |-> "", b |-> FALSE]
StrV(s) == [t |-> "str", s |-> s, b |-> FALSE]
BoolV(b) == [t |-> "bool", s |-> "", b |-> b]

Header(path) == [path |-> path, val |-> TableV]
KeyVal(k, v) == [path |-> <<k>>, val |-> v]

IsPrefix(p, q) == Len(p) <= Len(q) /\ SubSeq(q, 1, Len(p)) = p

\* the document tree as the sequence of its entries with absolute paths
RECURSIVE FlattenLoop(_, _, _, _)
FlattenLoop(lines, i, cur, acc) ==
    IF i > Len(lines) THEN acc
    ELSE IF lines[i].val.t = "table"
         THEN FlattenLoop(lines, i + 1, lines[i].path, Append(acc, lines[i]))
         ELSE FlattenLoop(lines, i + 1, cur,
                          Append(acc, [path |-> cur \o lines[i].path, val |-> lines[i].val]))

\* toml::from_str, up to the typed layer: the entries, or a syntax error for a
\* key or table defined twice or a value redefined as a table
toml_parse(lines) ==
    LET Check(E) ==
            IF \E i, j \in 1..Len(E) :
                  /\ i # j
                  /\ \/ E[i].path = E[j].path
                     \/ E[i].val.t # "table" /\ IsPrefix(E[i].path, E[j].path)
            THEN Err(<<"TOML parse error: duplicate key">>)
            ELSE Ok(E)
    IN Check(FlattenLoop(lines, 1, <<>>, <<>>))

\* what the tree holds at path p
Kind(E, p) ==
    IF \E i \in 1..Len(E) : E[i].path = p /\ E[i].val.t # "table"
    THEN (CHOOSE v \in {E[i].val : i \in {j \in 1..Len(E) : E[j].path = p}} : TRUE).t
    ELSE IF p = <<>> \/ \E i \in 1..Len(E) : IsPrefix(p, E[i].path) THEN "table"
    ELSE "missing"

ValueAt(E, p) == CHOOSE v \in {E[i].val : i \in {j \in 1..Len(E) : E[j].path = p}} : TRUE

\* the keys of the table at p, in document order
RECURSIVE ChildLoop(_, _, _, _)
ChildLoop(E, p, i, acc) ==
    IF i > Len(E) THEN acc
    ELSE IF IsPrefix(p, E[i].path) /\ Len(E[i].path) > Len(p)
            /\ ~\E j \in 1..Len(acc) : acc[j] = E[i].path[Len(p) + 1]
         THEN ChildLoop(E, p, i + 1, Append(acc, E[i].path[Len(p) + 1]))
         ELSE ChildLoop(E, p, i + 1, acc)

ChildKeys(E, p) == ChildLoop(E, p, 1, <<>>)

Range(seq) == {seq[i] : i \in 1..Len(seq)}

(***************************************************************************)
(* Typed values.  IndexMap<String, V> is a sequence of [key, value]        *)
(* entries in insertion order with distinct keys.                          *)
(***************************************************************************)
DEFAULT_PROFILE_NAME == "default"

Entry(k, v) == [key |-> k, value |-> v]
contains_key(m, k) == \E i \in 1..Len(m) : m[i].key = k
get(m, k) == m[CHOOSE i \in 1..Len(m) : m[i].key = k].value

Rpc(url) == [tag |-> "Rpc", url |-> url, vendor |-> ""]
Free(vendor) == [tag |-> "Free", url |-> "", vendor |-> vendor]

Network(name, chain_id, is_integration, provider) ==
    [name |-> name, chain_id |-> chain_id, is_integration |-> is_integration,
     provider |-> provider]

Profile(networks) == [networks |-> networks]

\* FreeProviderVendor, rename_all = "snake_case"
VendorOfText(s) ==
    CASE s = "blast" -> Ok("Blast")
      [] s = "nethermind" -> Ok("Nethermind")
      [] OTHER -> Err(<<"unknown variant, expected 'blast' or 'nethermind'">>)

VendorText(v) == IF v = "Blast" THEN "blast" ELSE "nethermind"

(***************************************************************************)
(* Deserialize for NetworkProvider                                         *)
(***************************************************************************)
\* deserialize_url: deserializer.deserialize_str(UrlVisitor); only a string
\* reaches visit_str, any other content is an invalid type
deserialize_url(E, p) ==
    LET Visit(kind) ==
            IF kind = "str" THEN UrlVisitor_visit_str(ValueAt(E, p).s)
            ELSE Err(<<"invalid type, expected string">>)
    IN Visit(Kind(E, p))

\* RpcVariant is #[serde(transparent)]: it deserializes as its `url` field does,
\* from the content it is handed: the table left once `type` is taken out
RpcVariant_deserialize(E, p) == deserialize_url(E, p)

\* FreeVariant { vendor }, deny_unknown_fields (the tag field is already consumed)
FreeVariant_deserialize(E, p) ==
    LET Check(fields, kind) ==
            IF fields \ {"vendor"} # {} THEN Err(<<"unknown field">>)
            ELSE IF "vendor" \notin fields THEN Err(<<"missing field 'vendor'">>)
            ELSE IF kind # "str" THEN Err(<<"invalid type">>)
            ELSE VendorOfText(ValueAt(E, p \o <<"vendor">>).s)
    IN Check(Range(ChildKeys(E, p)) \ {"type"}, Kind(E, p \o <<"vendor">>))

\* enum Tagged, tag = "type", rename_all = "snake_case"
Tagged_deserialize(E, p) ==
    LET AsRpc(r) == IF r.ok THEN Ok(Rpc(r.val)) ELSE r
        AsFree(r) == IF r.ok THEN Ok(Free(r.val)) ELSE r
        Variant(tag) ==
            CASE tag = "rpc" -> AsRpc(RpcVariant_deserialize(E, p))
              [] tag = "free" -> AsFree(FreeVariant_deserialize(E, p))
              [] OTHER -> Err(<<"unknown variant, expected 'rpc' or 'free'">>)
        Check(kind, tagKind) ==
            IF kind # "table" THEN Err(<<"invalid type, expected internally tagged enum">>)
            ELSE IF tagKind # "str" THEN Err(<<"missing field 'type'">>)
            ELSE Variant(ValueAt(E, p \o <<"type">>).s)
    IN Check(Kind(E, p), Kind(E, p \o <<"type">>))

\* enum ShorthandOrTagged, untagged: the first variant that deserializes wins
NetworkProvider_deserialize(E, p) ==
    LET FirstMatch(shorthand, tagged) ==
            IF shorthand.ok THEN Ok(Rpc(shorthand.val))
            ELSE IF tagged.ok THEN tagged
            ELSE Err(<<"data did not match any variant of untagged enum ShorthandOrTagged">>)
    IN FirstMatch(deserialize_url(E, p), Tagged_deserialize(E, p))

(***************************************************************************)
(* Deserialize for Network, Profile and Profiles                           *)
(***************************************************************************)
NetworkFields == {"name", "chain_id", "is_integration", "provider"}

Network_deserialize(E, p) ==
    LET ChainId(kind) ==
            IF kind = "str"
            THEN deserialize_chain_id(StrBytes(ValueAt(E, p \o <<"chain_id">>).s))
            ELSE Err(<<"invalid type, expected string">>)
        Build(fields, kind, nameKind, chain, integKind, prov) ==
            IF kind # "table" THEN Err(<<"invalid type, expected struct Network">>)
            ELSE IF fields \ NetworkFields # {} THEN Err(<<"unknown field">>)
            ELSE IF "name" \in fields /\ nameKind # "str"
                 THEN Err(<<"invalid type, expected string">>)
            ELSE IF "chain_id" \notin fields THEN Err(<<"missing field 'chain_id'">>)
            ELSE IF ~chain.ok THEN chain
            ELSE IF "is_integration" \in fields /\ integKind # "bool"
                 THEN Err(<<"invalid type, expected a boolean">>)
            ELSE IF "provider" \notin fields THEN Err(<<"missing field 'provider'">>)
            ELSE IF ~prov.ok THEN prov
            ELSE Ok(Network(
                     IF "name" \in fields THEN Some(ValueAt(E, p \o <<"name">>).s) ELSE None,
                     chain.val,
                     IF "is_integration" \in fields
                     THEN ValueAt(E, p \o <<"is_integration">>).b ELSE FALSE,
                     prov.val))
    IN Build(Range(ChildKeys(E, p)), Kind(E, p), Kind(E, p \o <<"name">>),
             ChainId(Kind(E, p \o <<"chain_id">>)), Kind(E, p \o <<"is_integration">>),
             NetworkProvider_deserialize(E, p \o <<"provider">>))

\* an IndexMap from its keys and the result of deserializing each value: the
\* first error in document order, or the map
CollectMap(keys, each) ==
    IF \E i \in 1..Len(keys) : ~each[i].ok
    THEN each[CHOOSE i \in 1..Len(keys) : ~each[i].ok /\ \A j \in 1..(i - 1) : each[j].ok]
    ELSE Ok([i \in 1..Len(keys) |-> Entry(keys[i], each[i].val)])

\* IndexMap<String, Network>
Networks_deserialize(E, p) ==
    LET Each(keys) ==
            CollectMap(keys, [i \in 1..Len(keys) |-> Network_deserialize(E, p \o <<keys[i]>>)])
        Check(kind) ==
            IF kind # "table" THEN Err(<<"invalid type, expected a map">>)
            ELSE Each(ChildKeys(E, p))
    IN Check(Kind(E, p))

\* struct Profile { networks }: the mapping is the value of the field `networks`
\* fault: Profile read as if it were #[serde(transparent)] over its map
MutProfileTransparent(E, p) ==
    LET Wrap(r) == IF r.ok THEN Ok(Profile(r.val)) ELSE r
    IN Wrap(Networks_deserialize(E, p))

Profile_deserialize(E, p) ==
    LET Wrap(r) == IF r.ok THEN Ok(Profile(r.val)) ELSE r
        Check(fields, kind) ==
            IF kind # "table" THEN Err(<<"invalid type, expected struct Profile">>)
            ELSE IF fields \ {"networks"} # {}
                 THEN Err(<<"unknown field, expected 'networks'">>)
            ELSE IF "networks" \notin fields THEN Err(<<"missing field 'networks'">>)
            ELSE Wrap(Networks_deserialize(E, p \o <<"networks">>))
    IN Check(Range(ChildKeys(E, p)), Kind(E, p))

\* Deserialize for Profiles: transparent over IndexMap<String, Profile>
Profiles_deserialize(E) ==
    LET Each(keys) ==
            CollectMap(keys, [i \in 1..Len(keys) |-> Profile_deserialize(E, <<keys[i]>>)])
    IN Each(ChildKeys(E, <<>>))

\* toml::from_str::<Profiles>
toml_from_str(text) ==
    LET Typed(parsed) == IF parsed.ok THEN Profiles_deserialize(parsed.val) ELSE parsed
    IN Typed(toml_parse(text))

(***************************************************************************)
(* Serialize: toml::to_string_pretty over Profiles                         *)
(***************************************************************************)
RECURSIVE Flat(_)
Flat(ss) == IF ss = <<>> THEN <<>> ELSE Head(ss) \o Flat(Tail(ss))

\* Serialize for NetworkProvider: Rpc as the bare string, Free as a table
NetworkProvider_serialize(path, provider) ==
    IF provider.tag = "Rpc"
    THEN <<KeyVal(path[Len(path)], StrV(provider.url))>>
    ELSE <<Header(path), KeyVal("type", StrV("free")),
           KeyVal("vendor", StrV(VendorText(provider.vendor)))>>

is_false(value) == value = FALSE

\* Serialize for Network, in field order; fails if the chain id does
Network_serialize(path, network) ==
    LET Fields(chain) ==
            IF ~chain.ok THEN chain
            ELSE Ok(<<Header(path)>>
                    \o (IF network.name = None THEN <<>>
                        ELSE <<KeyVal("name", StrV(network.name[1]))>>)
                    \o <<KeyVal("chain_id", StrV(BytesStr(chain.val)))>>
                    \o (IF is_false(network.is_integration) THEN <<>>
                        ELSE <<KeyVal("is_integration", BoolV(TRUE))>>)
                    \o NetworkProvider_serialize(path \o <<"provider">>, network.provider))
    IN Fields(serialize_chain_id(network.chain_id))

\* the text of a sequence of tables: the first error, or the tables' lines in
\* order (a map with no entries is written as its own header)
CollectLines(header, each) ==
    IF \E i \in 1..Len(each) : ~each[i].ok
    THEN each[CHOOSE i \in 1..Len(each) : ~each[i].ok /\ \A j \in 1..(i - 1) : each[j].ok]
    ELSE IF each = <<>> THEN Ok(header)
    ELSE Ok(Flat([i \in 1..Len(each) |-> each[i].val]))

\* Serialize for Profile: the field `networks` holds the map of networks
Profile_serialize(name, profile) ==
    CollectLines(<<Header(<<name, "networks">>)>>,
                 [i \in 1..Len(profile.networks) |->
                    Network_serialize(<<name, "networks", profile.networks[i].key>>,
                                      profile.networks[i].value)])

\* Serialize for Profiles (transparent) through toml::to_string_pretty
toml_to_string_pretty(profiles) ==
    CollectLines(<<>>,
                 [i \in 1..Len(profiles) |->
                    Profile_serialize(profiles[i].key, profiles[i].value)])

(***************************************************************************)
(* Profiles::load                                                          *)
(***************************************************************************)
OnlyDefaultError ==
    <<"invalid profiles: only the 'default' profile is supported at the moment">>

\* fault: the two network keys formatted in the other order
MutSameChainIdErrorSwapped(first, second) ==
    <<"invalid profile 'default': networks ", second, " and ", first,
      " have the same chain ID">>

SameChainIdError(first, second) ==
    <<"invalid profile 'default': networks ", first, " and ", second,
      " have the same chain ID">>

\* the loop over default_profile.networks; `seen` is chain_id_last_used_in_network,
\* a map from chain id to network key
RECURSIVE ChainIdLoop(_, _, _)
ChainIdLoop(networks, i, seen) ==
    IF i > Len(networks) THEN Ok(<<>>)
    ELSE IF contains_key(seen, networks[i].value.chain_id)
         THEN Err(SameChainIdError(get(seen, networks[i].value.chain_id), networks[i].key))
         ELSE ChainIdLoop(networks, i + 1,
                          Append(seen, Entry(networks[i].value.chain_id, networks[i].key)))

\* the cardinality check of load
\* fault: the check for a single profile not named "default" left out
MutCardinalityLenOnly(profiles) ==
    Len(profiles) > 1

CardinalityViolated(profiles) ==
    \/ Len(profiles) > 1
    \/ Len(profiles) = 1 /\ ~contains_key(profiles, DEFAULT_PROFILE_NAME)

\* what load reads: the file's content, or Self::default() when path.exists() is false
\* fault: the file opened without asking path.exists()
MutReadAbsentFails(f) ==
    IF f.exists THEN toml_from_str(f.data) ELSE Err(<<"No such file or directory">>)

ReadProfiles(f) ==
    IF f.exists THEN toml_from_str(f.data) ELSE Ok(<<>>)

\* the chain-id duplication check of load, on the profile named "default" if any
\* fault: the loop starting at the second network
MutChainIdCheckSkipFirst(profiles) ==
    IF contains_key(profiles, DEFAULT_PROFILE_NAME)
    THEN ChainIdLoop(get(profiles, DEFAULT_PROFILE_NAME).networks, 2, <<>>)
    ELSE Ok(<<>>)

ChainIdCheck(profiles) ==
    IF contains_key(profiles, DEFAULT_PROFILE_NAME)
    THEN ChainIdLoop(get(profiles, DEFAULT_PROFILE_NAME).networks, 1, <<>>)
    ELSE Ok(<<>>)

Profiles_load(f) ==
    LET Validate(loaded_profiles, check) ==
            IF ~loaded_profiles.ok THEN loaded_profiles
            ELSE IF CardinalityViolated(loaded_profiles.val) THEN Err(OnlyDefaultError)
            ELSE IF ~check.ok THEN check
            ELSE loaded_profiles
        Checked(loaded_profiles) ==
            Validate(loaded_profiles,
                     IF loaded_profiles.ok THEN ChainIdCheck(loaded_profiles.val) ELSE Ok(<<>>))
    IN Checked(ReadProfiles(f))

(***************************************************************************)
(* Documents a user may have written to profiles.toml                      *)
(***************************************************************************)
ShorthandRaw(s) == [form |-> "str", s |-> s, type |-> "", vendor |-> ""]
TaggedRpcRaw(url) == [form |-> "table", s |-> url, type |-> "rpc", vendor |-> ""]
TaggedFreeRaw(vendor) == [form |-> "table", s |-> "", type |-> "free", vendor |-> vendor]

RawProviderLines(path, pv) ==
    IF pv.form = "str" THEN <<KeyVal(path[Len(path)], StrV(pv.s))>>
    ELSE <<Header(path)>>
         \o (IF pv.type = "" THEN <<>> ELSE <<KeyVal("type", StrV(pv.type))>>)
         \o (IF pv.s = "" THEN <<>> ELSE <<KeyVal("url", StrV(pv.s))>>)
         \o (IF pv.vendor = "" THEN <<>> ELSE <<KeyVal("vendor", StrV(pv.vendor))>>)

RawNet(name, chain, integ, prov, extra) ==
    [name |-> name, chain |-> chain, integ |-> integ, prov |-> prov, extra |-> extra]

RawNetLines(path, rn) ==
    <<Header(path)>>
    \o (IF rn.name = None THEN <<>> ELSE <<KeyVal("name", StrV(rn.name[1]))>>)
    \o <<KeyVal("chain_id", StrV(rn.chain))>>
    \o (IF rn.integ = "absent" THEN <<>>
        ELSE <<KeyVal("is_integration", BoolV(rn.integ = "true"))>>)
    \o (IF rn.extra THEN <<KeyVal("rpc_url", StrV("https://a.io/rpc"))>> ELSE <<>>)
    \o RawProviderLines(path \o <<"provider">>, rn.prov)

BaseNets ==
    {RawNet(None, c, "absent", pv, FALSE) :
        c \in {"SN_MAIN", "SN_GOERLI"},
        pv \in {ShorthandRaw("https://a.io/rpc"), TaggedFreeRaw("blast")}}

RawNets ==
    BaseNets
    \cup {RawNet(None, c, "absent", ShorthandRaw("https://a.io/rpc"), FALSE) :
            c \in ChainIdTexts \ {"A*31"}}
    \cup {RawNet(None, "SN_MAIN", "absent", pv, FALSE) :
            pv \in {ShorthandRaw("https://a.io"), ShorthandRaw("a.io/rpc"),
                    TaggedRpcRaw("https://a.io/rpc"), TaggedFreeRaw("nethermind"),
                    TaggedFreeRaw("Blast")}}
    \cup {RawNet(Some("Mainnet"), "SN_MAIN", "true", ShorthandRaw("https://a.io/rpc"), FALSE),
          RawNet(None, "SN_GOERLI", "false", ShorthandRaw("https://a.io/rpc"), FALSE),
          RawNet(None, "SN_MAIN", "absent", ShorthandRaw("https://a.io/rpc"), TRUE)}

\* networks that differ in chain id and provider only
CoreNets ==
    {RawNet(None, c, "absent", ShorthandRaw("https://a.io/rpc"), FALSE) :
        c \in {"SN_MAIN", "SN_GOERLI", "A*31", "<NUL>SN_MAIN"}}
    \cup {RawNet(None, "SN_MAIN", "absent", TaggedFreeRaw("blast"), FALSE)}

NetKeys == <<"mainnet", "goerli", "custom", "extra", "more">>

SeqsUpTo(S, n) == UNION {[1..k -> S] : k \in 0..n}

\* a profile table: its networks under the field `networks` (wrapped), or keyed
\* directly under the profile name
ProfileLines(name, wrapped, nets) ==
    LET base == IF wrapped THEN <<name, "networks">> ELSE <<name>>
    IN IF nets = <<>> THEN <<Header(base)>>
       ELSE Flat([i \in 1..Len(nets) |-> RawNetLines(base \o <<NetKeys[i]>>, nets[i])])

Absent == [exists |-> FALSE, data |-> <<>>]
Existing(data) == [exists |-> TRUE, data |-> data]

DefaultDocs ==
    {ProfileLines("default", TRUE, nets) :
        nets \in SeqsUpTo(RawNets, MaxVariedNetworks) \cup SeqsUpTo(CoreNets, MaxNetworks)}
UnwrappedDocs ==
    {ProfileLines("default", FALSE, nets) : nets \in SeqsUpTo(BaseNets, MaxVariedNetworks)}
CustomDocs ==
    {ProfileLines("custom", TRUE, nets) : nets \in SeqsUpTo(BaseNets, MaxVariedNetworks)}
TwoProfileDocs ==
    {ProfileLines(names[1], TRUE, a) \o ProfileLines(names[2], TRUE, b) :
        names \in {<<"default", "custom">>, <<"custom", "default">>},
        a \in SeqsUpTo(BaseNets, MaxVariedNetworks - 1),
        b \in SeqsUpTo(BaseNets, MaxVariedNetworks - 1)}

UserFiles ==
    {Absent, Existing(<<>>)}
    \cup {Existing(d) : d \in DefaultDocs \cup UnwrappedDocs \cup CustomDocs \cup TwoProfileDocs}

\* the files the mutation and the two-process specifications start from
SmallFiles ==
    {Absent,
     Existing(ProfileLines("default", TRUE,
                 <<RawNet(None, "SN_MAIN", "absent", ShorthandRaw("https://a.io/rpc"), FALSE)>>))}

(***************************************************************************)
(* State machine                                                           *)
(***************************************************************************)
NoResult == [op |-> "none", ok |-> TRUE, err |-> <<>>]
ResultOf(op, r) == [op |-> op, ok |-> r.ok, err |-> r.err]

NoOutput == [de |-> Err(<<"none">>), ser |-> Err(<<"none">>)]

InitProcs ==
    /\ pc = [p \in Procs |-> "start"]
    /\ mem = [p \in Procs |-> <<>>]
    /\ buf = [p \in Procs |-> <<>>]
    /\ res = [p \in Procs |-> NoResult]
    /\ snap = [p \in Procs |-> <<>>]
    /\ edits = [p \in Procs |-> 0]
    /\ log = <<>>

InitCodecIdle ==
    /\ input = <<>>
    /\ output = NoOutput
    /\ step = "none"

codecVars == <<input, output, step>>
procVars == <<file, pc, mem, buf, res, snap, edits, log>>

\* Profiles::load called by process p, first call
Load(p) ==
    /\ pc[p] = "start"
    /\ \E r \in {Profiles_load(file)} :
          /\ res' = [res EXCEPT ![p] = ResultOf("load", r)]
          /\ mem' = [mem EXCEPT ![p] = r.val]
          /\ pc' = [pc EXCEPT ![p] = IF r.ok THEN "loaded" ELSE "loadFailed"]
    /\ UNCHANGED <<file, buf, snap, edits, log, codecVars>>

\* Profiles::load called again by process p after its save returned
Reload(p) ==
    /\ pc[p] = "saved"
    /\ \E r \in {Profiles_load(file)} :
          /\ res' = [res EXCEPT ![p] = ResultOf("load", r)]
          /\ mem' = [mem EXCEPT ![p] = r.val]
          /\ pc' = [pc EXCEPT ![p] = "reloaded"]
    /\ UNCHANGED <<file, buf, snap, edits, log, codecVars>>

\* IndexMap::insert: replaces the value of an existing key in place, else appends
insert(m, k, v) ==
    IF contains_key(m, k)
    THEN [i \in 1..Len(m) |-> IF m[i].key = k THEN Entry(k, v) ELSE m[i]]
    ELSE Append(m, Entry(k, v))

\* IndexMap::shift_remove
shift_remove(m, k) ==
    LET keep == {i \in 1..Len(m) : m[i].key # k}
        Nth(n) == CHOOSE i \in keep : Cardinality({j \in keep : j < i}) = n - 1
    IN [n \in 1..Cardinality(keep) |-> m[Nth(n)]]

Felt(text) == cairo_short_string_to_felt(StrBytes(text)).val

\* the networks a caller adds
CallerNets ==
    {Network(None, Felt("SN_MAIN"), FALSE, Rpc("https://a.io/")),
     Network(Some("Goerli"), Felt("SN_GOERLI"), TRUE, Free("Blast"))}

ProfileNames == {"default", "custom"}

\* a caller of the crate changes the store through its pub fields
InsertProfile(p, max) ==
    /\ pc[p] = "loaded"
    /\ edits[p] < max
    /\ \E name \in ProfileNames :
          /\ ~contains_key(mem[p], name)
          /\ mem' = [mem EXCEPT ![p] = insert(mem[p], name, Profile(<<>>))]
    /\ edits' = [edits EXCEPT ![p] = edits[p] + 1]
    /\ UNCHANGED <<file, pc, buf, res, snap, log, codecVars>>

InsertNetwork(p, max) ==
    /\ pc[p] = "loaded"
    /\ edits[p] < max
    /\ \E i \in 1..Len(mem[p]), k \in {NetKeys[1], NetKeys[2]}, n \in CallerNets :
          mem' = [mem EXCEPT ![p] =
                    [mem[p] EXCEPT ![i].value.networks = insert(mem[p][i].value.networks, k, n)]]
    /\ edits' = [edits EXCEPT ![p] = edits[p] + 1]
    /\ UNCHANGED <<file, pc, buf, res, snap, log, codecVars>>

RemoveNetwork(p, max) ==
    /\ pc[p] = "loaded"
    /\ edits[p] < max
    /\ \E i \in 1..Len(mem[p]) : \E j \in 1..Len(mem[p][i].value.networks) :
          mem' = [mem EXCEPT ![p] =
                    [mem[p] EXCEPT ![i].value.networks =
                        shift_remove(mem[p][i].value.networks,
                                     mem[p][i].value.networks[j].key)]]
    /\ edits' = [edits EXCEPT ![p] = edits[p] + 1]
    /\ UNCHANGED <<file, pc, buf, res, snap, log, codecVars>>

\* what save does before it touches the file: the serialization of the store
\* fault: save applying load's structural checks before it serializes
MutSaveValidates(profiles) ==
    LET Guard(check) ==
            IF CardinalityViolated(profiles) THEN Err(OnlyDefaultError)
            ELSE IF ~check.ok THEN check
            ELSE toml_to_string_pretty(profiles)
    IN Guard(ChainIdCheck(profiles))

SaveSerialize(profiles) == toml_to_string_pretty(profiles)

\* File::create: the file exists and is empty; the new handle's offset is 0
\* fault: the file opened for writing without truncation
MutCreateNoTruncate(f) == Existing(f.data)

FileCreate(f) == Existing(<<>>)

\* write_all through a handle at offset 0: overwrites from the start and keeps
\* what the file holds beyond the written length (the text goes out in one
\* write; lengths are counted in lines)
FileWriteAll(f, data) ==
    Existing(data \o SubSeq(f.data, Len(data) + 1, Len(f.data)))

\* Profiles::save, up to File::create
SaveCreate(p) ==
    /\ pc[p] = "loaded"
    /\ snap' = [snap EXCEPT ![p] = mem[p]]
    /\ \E serialized \in {SaveSerialize(mem[p])} :
          IF serialized.ok
          THEN /\ buf' = [buf EXCEPT ![p] = serialized.val]
               /\ file' = FileCreate(file)
               /\ log' = Append(log, <<p, "create">>)
               /\ pc' = [pc EXCEPT ![p] = "created"]
               /\ res' = res
          ELSE /\ res' = [res EXCEPT ![p] = ResultOf("save", serialized)]
               /\ pc' = [pc EXCEPT ![p] = "saveFailed"]
               /\ UNCHANGED <<buf, file, log>>
    /\ UNCHANGED <<mem, edits, codecVars>>

\* Profiles::save, file.write_all and the return
SaveWrite(p) ==
    /\ pc[p] = "created"
    /\ file' = FileWriteAll(file, buf[p])
    /\ log' = Append(log, <<p, "write">>)
    /\ res' = [res EXCEPT ![p] = ResultOf("save", Ok(<<>>))]
    /\ pc' = [pc EXCEPT ![p] = "saved"]
    /\ UNCHANGED <<mem, buf, snap, edits, codecVars>>

\* one process: load a user's file, save it unchanged, load again
InitLoad == file \in UserFiles /\ InitProcs /\ InitCodecIdle
NextLoad == Load(1) \/ SaveCreate(1) \/ SaveWrite(1) \/ Reload(1)
SpecLoad == InitLoad /\ [][NextLoad]_vars

\* one process: load, let the caller change the store, save, load again
InitSave == file \in SmallFiles /\ InitProcs /\ InitCodecIdle
NextSave ==
    \/ Load(1)
    \/ InsertProfile(1, MaxEdits) \/ InsertNetwork(1, MaxEdits) \/ RemoveNetwork(1, MaxEdits)
    \/ SaveCreate(1) \/ SaveWrite(1) \/ Reload(1)
SpecSave == InitSave /\ [][NextSave]_vars

\* two processes over the same file
Init == file \in SmallFiles /\ InitProcs /\ InitCodecIdle
Next ==
    \E p \in Procs :
        \/ Load(p)
        \/ InsertProfile(p, MaxSharedEdits) \/ InsertNetwork(p, MaxSharedEdits)
        \/ RemoveNetwork(p, MaxSharedEdits)
        \/ SaveCreate(p) \/ SaveWrite(p)
Spec == Init /\ [][Next]_vars

(***************************************************************************)
(* The codecs alone: a value is decoded, and what was decoded is encoded   *)
(***************************************************************************)
CodecTexts ==
    SeqsUpTo(CodecBytes, MaxStrLen)
    \cup {StrBytes("SN_MAIN"), StrBytes("A*31"), StrBytes("A*32")}

DecodeChainId ==
    /\ step = "input"
    /\ output' = [output EXCEPT !.de = deserialize_chain_id(input)]
    /\ step' = "decoded"
    /\ UNCHANGED <<input, procVars>>

EncodeChainId ==
    /\ step = "decoded"
    /\ output.de.ok
    /\ output' = [output EXCEPT !.ser = serialize_chain_id(output.de.val)]
    /\ step' = "encoded"
    /\ UNCHANGED <<input, procVars>>

InitChainId ==
    /\ input \in CodecTexts
    /\ output = NoOutput
    /\ step = "input"
    /\ file = Absent
    /\ InitProcs
NextChainId == DecodeChainId \/ EncodeChainId
SpecChainId == InitChainId /\ [][NextChainId]_vars

\* the provider values of a document: a bare string, or a table with any of
\* the fields type, url, vendor ("" for a field that is not there)
ProviderInputs ==
    {ShorthandRaw(u) : u \in UrlTexts}
    \cup {[form |-> "table", s |-> u, type |-> t, vendor |-> v] :
            u \in UrlTexts, t \in {"", "rpc", "free", "ws"},
            v \in {"", "blast", "nethermind", "Blast"}}

DeserializeProvider ==
    /\ step = "input"
    /\ output' = [output EXCEPT !.de =
                    NetworkProvider_deserialize(
                        toml_parse(RawProviderLines(<<"provider">>, input)).val,
                        <<"provider">>)]
    /\ step' = "deserialized"
    /\ UNCHANGED <<input, procVars>>

SerializeProvider ==
    /\ step = "deserialized"
    /\ output.de.ok
    /\ output' = [output EXCEPT !.ser =
                    Ok(NetworkProvider_serialize(<<"provider">>, output.de.val))]
    /\ step' = "serialized"
    /\ UNCHANGED <<input, procVars>>

InitProvider ==
    /\ input \in ProviderInputs
    /\ output = NoOutput
    /\ step = "input"
    /\ file = Absent
    /\ InitProcs
NextProvider == DeserializeProvider \/ SerializeProvider
SpecProvider == InitProvider /\ [][NextProvider]_vars

(***************************************************************************)
(* Properties                                                              *)
(***************************************************************************)
\* the first load of process 1 has returned and the file is as it was read
FirstLoadDone == pc[1] \in {"loaded", "loadFailed"}

HasRepeatedChainId(networks) ==
    \E i, j \in 1..Len(networks) :
        i < j /\ networks[i].value.chain_id = networks[j].value.chain_id

OnlyDefault(profiles) == Len(profiles) = 1 /\ profiles[1].key = "default"

\* C1: load fails with the "only the default profile is supported" error exactly
\* when the parsed store has more than one profile or a single profile that is
\* not named "default"; a parsed store with no profile, or with the single
\* profile "default" and no repeated chain id, is returned as it is.
LoadCardinalityCheck ==
    LET Holds(parsed) ==
            /\ (res[1].err
                  = <<"invalid profiles: only the 'default' profile is supported at the moment">>)
               <=> \/ Len(parsed.val) > 1
                   \/ Len(parsed.val) = 1 /\ parsed.val[1].key # "default"
            /\ Len(parsed.val) = 0 => res[1].ok /\ mem[1] = <<>>
            /\ (OnlyDefault(parsed.val)
                /\ ~HasRepeatedChainId(parsed.val[1].value.networks))
               => res[1].ok /\ mem[1] = parsed.val
        Parsed(parsed) == parsed.ok => Holds(parsed)
    IN FirstLoadDone => Parsed(ReadProfiles(file))

\* reached: a document with the single profile "custom" is rejected
LoadRejectsCustomProfile ==
    LET Custom(parsed) ==
            /\ parsed.ok
            /\ Len(parsed.val) = 1
            /\ parsed.val[1].key = "custom"
    IN /\ pc[1] = "loadFailed"
       /\ Custom(ReadProfiles(file))
       /\ res[1].err
            = <<"invalid profiles: only the 'default' profile is supported at the moment">>

\* C2: for a document that parses to the single profile "default", load fails
\* if and only if two of its networks have the same chain id as packed values,
\* and the "default" profile of every store load returns has pairwise distinct
\* chain ids.
LoadChainIdUniqueness ==
    LET Parsed(parsed) ==
            (parsed.ok /\ OnlyDefault(parsed.val))
            => (~res[1].ok <=> HasRepeatedChainId(parsed.val[1].value.networks))
    IN /\ FirstLoadDone => Parsed(ReadProfiles(file))
       /\ \A p \in Procs :
             (pc[p] \in {"loaded", "reloaded"} /\ res[p].ok
              /\ contains_key(mem[p], "default") /\ edits[p] = 0)
             => ~HasRepeatedChainId(get(mem[p], "default").networks)

\* reached: three networks, the third repeating the chain id of the first
LoadRejectsRepeatedChainId ==
    LET Repeated(parsed) ==
            /\ parsed.ok
            /\ OnlyDefault(parsed.val)
            /\ Len(parsed.val[1].value.networks) = 3
            /\ parsed.val[1].value.networks[1].value.chain_id
                 = parsed.val[1].value.networks[3].value.chain_id
            /\ parsed.val[1].value.networks[1].value.chain_id
                 # parsed.val[1].value.networks[2].value.chain_id
    IN pc[1] = "loadFailed" /\ Repeated(ReadProfiles(file))

\* the index of the first network whose chain id an earlier network holds
FirstRepeat(networks) ==
    CHOOSE j \in 1..Len(networks) :
        /\ \E i \in 1..(j - 1) : networks[i].value.chain_id = networks[j].value.chain_id
        /\ \A k \in 1..(j - 1) :
              ~\E i \in 1..(k - 1) : networks[i].value.chain_id = networks[k].value.chain_id

\* the index of the first network that holds the chain id of network j
FirstHolder(networks, j) ==
    CHOOSE i \in 1..j :
        /\ networks[i].value.chain_id = networks[j].value.chain_id
        /\ \A k \in 1..(i - 1) : networks[k].value.chain_id # networks[j].value.chain_id

ChainIdText(felt) == BytesStr(parse_cairo_short_string(felt).val)

\* C3 as stated: the error for a repeated chain id names both conflicting
\* network keys and the shared chain id.
RepeatedChainIdErrorNamesChainId ==
    LET Names(networks) ==
            /\ networks[FirstHolder(networks, FirstRepeat(networks))].key \in Range(res[1].err)
            /\ networks[FirstRepeat(networks)].key \in Range(res[1].err)
            /\ ChainIdText(networks[FirstRepeat(networks)].value.chain_id) \in Range(res[1].err)
        Parsed(parsed) ==
            (parsed.ok /\ OnlyDefault(parsed.val)
             /\ HasRepeatedChainId(parsed.val[1].value.networks))
            => Names(parsed.val[1].value.networks)
    IN FirstLoadDone => Parsed(ReadProfiles(file))

\* C3 amended: the error for a repeated chain id is the message "networks K1 and
\* K2 have the same chain ID", K1 the key of the first network in insertion
\* order that holds the id and K2 the key of the first network that repeats an
\* id; the message does not contain the chain id.
RepeatedChainIdErrorNamesKeys ==
    LET Names(networks) ==
            res[1].err
              = <<"invalid profile 'default': networks ",
                  networks[FirstHolder(networks, FirstRepeat(networks))].key,
                  " and ",
                  networks[FirstRepeat(networks)].key,
                  " have the same chain ID">>
        Parsed(parsed) ==
            (parsed.ok /\ OnlyDefault(parsed.val)
             /\ HasRepeatedChainId(parsed.val[1].value.networks))
            => Names(parsed.val[1].value.networks)
    IN FirstLoadDone => Parsed(ReadProfiles(file))

\* reached: three networks, the third repeating the chain id of the second, and
\* the error naming the second and the third
LoadReportsSecondAndThird ==
    LET Case(parsed) ==
            /\ parsed.ok
            /\ OnlyDefault(parsed.val)
            /\ Len(parsed.val[1].value.networks) = 3
            /\ parsed.val[1].value.networks[2].value.chain_id
                 = parsed.val[1].value.networks[3].value.chain_id
            /\ parsed.val[1].value.networks[1].value.chain_id
                 # parsed.val[1].value.networks[2].value.chain_id
    IN /\ pc[1] = "loadFailed"
       /\ Case(ReadProfiles(file))
       /\ res[1].err[2] = NetKeys[2]
       /\ res[1].err[4] = NetKeys[3]

\* C4: with no file, load returns the empty store and no error, which is also
\* what it returns for a file that exists and holds the empty document.
LoadAbsentIsEmpty ==
    (FirstLoadDone /\ (~file.exists \/ file.data = <<>>))
    => /\ res[1] = [op |-> "load", ok |-> TRUE, err |-> <<>>]
       /\ mem[1] = <<>>
       /\ pc[1] = "loaded"

\* reached: load has returned with no file present
LoadedAbsentFile == pc[1] = "loaded" /\ ~file.exists

\* C5 as stated: a provider given as the table {type = "rpc", url = U} with U
\* an absolute URL deserializes to Rpc(U), and that value serializes to the
\* bare string U.
TaggedRpcNormalisesToShorthand ==
    (/\ step \in {"deserialized", "serialized"}
     /\ input.form = "table" /\ input.type = "rpc" /\ input.vendor = ""
     /\ Url_parse(input.s).ok)
    => /\ output.de.ok
       /\ output.de.val = Rpc(Url_parse(input.s).val)
       /\ step = "serialized"
          => output.ser.val = <<KeyVal("provider", StrV(Url_parse(input.s).val))>>

\* C6 as stated: for every chain-id text the decoder accepts, encoding the
\* decoded value succeeds and returns that text.
ChainIdRoundTrip ==
    step = "encoded" => output.ser.ok /\ output.ser.val = input

\* the documents whose "default" profile is keyed directly by network key
DirectlyKeyed(data) == data \in UnwrappedDocs

\* those of them whose networks are well-formed and have distinct chain ids
DirectlyKeyedDocs ==
    {ProfileLines("default", FALSE, nets) :
        nets \in {n \in SeqsUpTo(BaseNets, MaxVariedNetworks) :
                    \A i, j \in 1..Len(n) : i # j => n[i].chain # n[j].chain}}

HeadersUnderNetworks(lines) ==
    \A i \in 1..Len(lines) :
        lines[i].val.t = "table"
        => Len(lines[i].path) >= 2 /\ lines[i].path[2] = "networks"

\* C7 as stated: load accepts a "default" profile whose entries are keyed
\* directly by network key, and save writes each network directly under its
\* profile name.
ProfileIsTheNetworkMap ==
    /\ (FirstLoadDone /\ file.data \in DirectlyKeyedDocs) => res[1].ok
    /\ pc[1] = "saved"
       => \A i \in 1..Len(file.data) :
             file.data[i].val.t = "table" => file.data[i].path[2] # "networks"

\* C7 amended: a profile object has the one field "networks", whose value is
\* the mapping of network key to network object: load rejects a "default"
\* profile keyed directly by network key, every document it accepts has its
\* tables under <profile>.networks, and save writes each network under
\* <profile>.networks.<key>.
ProfileWrapsNetworks ==
    /\ (FirstLoadDone /\ DirectlyKeyed(file.data)) => ~res[1].ok
    /\ pc[1] = "loaded" => HeadersUnderNetworks(file.data)
    /\ pc[1] \in {"created", "saved"} => HeadersUnderNetworks(buf[1])
    /\ pc[1] = "saved" => file.data = buf[1]

\* reached: a "default" profile keyed directly by network key is rejected
LoadRejectsDirectlyKeyed ==
    /\ pc[1] = "loadFailed"
    /\ DirectlyKeyed(file.data)
    /\ Len(file.data) > 1
    /\ res[1].err = <<"unknown field, expected 'networks'">>

\* both processes have returned from save
BothSaved == \A p \in Procs : pc[p] = "saved"

\* the process whose write_all came last, and the other one
LastWriter == log[Len(log)][1]
Other(p) == CHOOSE q \in Procs : q # p
CallAt(p, call) == CHOOSE i \in 1..Len(log) : log[i] = <<p, call>>
TextOf(p) == toml_to_string_pretty(snap[p]).val

\* C8 as stated: under every interleaving both saves succeed, and once both
\* have finished the file holds exactly the serialized store of the process
\* that wrote last.
LastWriterWins ==
    BothSaved
    => /\ \A p \in Procs : res[p] = [op |-> "save", ok |-> TRUE, err |-> <<>>]
       /\ file = Existing(TextOf(LastWriter))

\* C8 amended: under every interleaving both saves succeed, and once both have
\* finished the file begins with the serialized store of the process that
\* wrote last; it is exactly that text if that process created (truncated) the
\* file after the other's write or its text is at least as long as the
\* other's, and otherwise it is that text followed by the rest of the other
\* process's longer text.
LastWriterOverwritesPrefix ==
    LET Final(w, o) ==
            IF CallAt(o, "write") < CallAt(w, "create") \/ Len(TextOf(w)) >= Len(TextOf(o))
            THEN file.data = TextOf(w)
            ELSE file.data = TextOf(w) \o SubSeq(TextOf(o), Len(TextOf(w)) + 1, Len(TextOf(o)))
    IN BothSaved
       => /\ \A p \in Procs : res[p] = [op |-> "save", ok |-> TRUE, err |-> <<>>]
          /\ file.exists
          /\ Final(LastWriter, Other(LastWriter))

\* reached: both processes changed their store and saved, and the file is the
\* last writer's text followed by more
BothSavedFileIsMixed ==
    /\ BothSaved
    /\ \A p \in Procs : edits[p] > 0
    /\ file.data # TextOf(LastWriter)
    /\ SubSeq(file.data, 1, Len(TextOf(LastWriter))) = TextOf(LastWriter)

\* C9 as stated: for every store a successful load returns, save on it
\* unchanged succeeds, and the load that follows succeeds and returns an equal
\* store.
SaveIsInverseOfLoad ==
    /\ pc[1] # "saveFailed"
    /\ pc[1] = "reloaded" => res[1].ok /\ mem[1] = snap[1]

\* the store breaks one of load's structural checks
TwoProfiles(store) == Len(store) > 1
SingleOtherProfile(store) == Len(store) = 1 /\ store[1].key # "default"
DefaultRepeatsChainId(store) ==
    \E i \in 1..Len(store) :
        store[i].key = "default" /\ HasRepeatedChainId(store[i].value.networks)
Unloadable(store) ==
    TwoProfiles(store) \/ SingleOtherProfile(store) \/ DefaultRepeatsChainId(store)

\* C10: save applies none of load's structural checks: it fails only if the
\* serialization does, so for a store with two profiles, a single profile not
\* named "default", or a "default" profile with a repeated chain id it succeeds
\* and writes the store's text, and the load that follows fails.
SaveSkipsStructuralChecks ==
    /\ pc[1] = "saveFailed" => ~toml_to_string_pretty(snap[1]).ok
    /\ (pc[1] = "saved" /\ Unloadable(snap[1]))
       => /\ res[1] = [op |-> "save", ok |-> TRUE, err |-> <<>>]
          /\ file = Existing(toml_to_string_pretty(snap[1]).val)
    /\ (pc[1] = "reloaded" /\ Unloadable(snap[1]))
       => /\ res[1].op = "load"
          /\ ~res[1].ok

\* reached: a "default" profile with a repeated chain id was saved and the load
\* that followed failed
LoadFailsAfterSave ==
    /\ pc[1] = "reloaded"
    /\ DefaultRepeatsChainId(snap[1])
    /\ ~TwoProfiles(snap[1])
    /\ ~res[1].ok

====
